---- MODULE Spec2Model ----
(***************************************************************************)
(* xtra message channels: src/xtra/src/message_channel.rs.                 *)
(*                                                                         *)
(* A MessageChannel<M, R, Rc> boxes an Address<A, Rc>; the address holds a *)
(* chan::Ptr (self.0) made of the shared mailbox and a reference counter   *)
(* of static type Rc (Strong, Weak or Either).  The channel layer is       *)
(* translated from message_channel.rs; the address, chan, refcount and     *)
(* send_future modules it delegates to are modelled from the               *)
(* specification text.                                                     *)
(***************************************************************************)
EXTENDS Integers, Sequences, FiniteSets, TLC

\* ------------------------------------------------------------------ bounds
MaxHandles == 2
MaxSends == 2
MaxCap == 1
MaxJoins == 2
MaxCalls == 2

\* --------------------------------------------------------------- constants
\* write_usize hands the hasher size_of::<usize>() bytes (64-bit target).
UsizeBytes == 8

\* The two actors of the documentation example, each with its own mailbox.
Mailboxes == {"Alice", "Bob"}
Slots == 1..MaxHandles
SendIds == 1..MaxSends
JoinIds == 1..MaxJoins
None == "None"

VARIABLES
  address,         \* address[m]: the spawner still holds the Address of m
  channels,        \* channels[i]: the MessageChannel held in slot i
  sender_count,    \* per mailbox: strong reference count
  receiver_count,  \* per mailbox: number of live receivers (the actor)
  queue,           \* per mailbox: the queued messages, oldest first
  sends,           \* the SendFutures in flight
  last,            \* the operation that produced this state, and its result
  joins,           \* the ActorJoinHandles being awaited
  sink,            \* the Sink made by into_sink, if any
  caller           \* a caller that awaits each send before issuing the next

vars == <<address, channels, sender_count, receiver_count, queue, sends, last,
          joins, sink, caller>>

\* ------------------------------------------------- refcount / chan::Ptr
\* A Ptr: the mailbox it points to, the static type of its reference
\* counter, and whether that counter is (or wraps) a strong one.
Ptr(m, rc, s) == [mb |-> m, rc |-> rc, strong |-> s]

NoChannel == [kind |-> "none", mb |-> None, rc |-> None, strong |-> FALSE]

\* The address of the shared mailbox allocation.
inner_ptr(p) == IF p.mb = "Alice" THEN 4096 ELSE 4352

\* Strong counts, Weak does not, Either reports what it wraps.
Ptr_is_strong(p) == p.strong

\* A call that returns a value and may touch the strong counters: the value
\* returned and the counters after the call.
Ret(v, sc) == [ret |-> v, sc |-> sc]

\* Creating a strong counter increments sender_count, a weak one does not.
Increment(sc, p) ==
  IF p.strong THEN [sc EXCEPT ![p.mb] = @ + 1] ELSE sc

\* Dropping a strong counter decrements sender_count, a weak one does not.
Decrement(sc, p) ==
  IF p.strong THEN [sc EXCEPT ![p.mb] = @ - 1] ELSE sc

\* Ptr::clone: same mailbox, same counter type; a strong clone is counted.
Ptr_clone(p) == Ret(Ptr(p.mb, p.rc, p.strong), Increment(sender_count, p))

\* Ptr::to_tx_weak: a weak counter over the same mailbox, nothing counted.
to_tx_weak(p) == Ret(Ptr(p.mb, "Weak", FALSE), sender_count)

\* Ptr::to_tx_either: an Either counter wrapping a new counter of the
\* current strength.
to_tx_either(p) ==
  Ret(Ptr(p.mb, "Either", p.strong), Increment(sender_count, p))

\* ------------------------------------------------------------- Address
Address(p) == [kind |-> "address", mb |-> p.mb, rc |-> p.rc, strong |-> p.strong]

\* self.0 of an address (or of the address boxed in a channel).
PtrOf(a) == Ptr(a.mb, a.rc, a.strong)

\* The Address returned by Mailbox::unbounded() / Mailbox::bounded(n).
RootAddress(m) == Address(Ptr(m, "Strong", TRUE))

Address_clone(a) ==
  LET r == Ptr_clone(PtrOf(a)) IN Ret(Address(r.ret), r.sc)

Address_downgrade(a) ==
  LET r == to_tx_weak(PtrOf(a)) IN Ret(Address(r.ret), r.sc)

\* Connected while a receiver and a strong sender exist.
Address_is_connected(a) ==
  receiver_count[a.mb] > 0 /\ sender_count[a.mb] > 0

Address_len(a) == Len(queue[a.mb])

\* Option<usize>: None is the empty sequence, Some(n) is <<n>>.
Some(n) == <<n>>

\* Mailbox capacity: Alice's mailbox is bounded, Bob's is unbounded.
Address_capacity(a) == IF a.mb = "Alice" THEN Some(MaxCap) ELSE <<>>

\* An ActorJoinHandle: it listens for the shutdown of a connected mailbox,
\* and is complete from the start for a disconnected one.
Address_join(a) ==
  [mb |-> a.mb, listening |-> Address_is_connected(a)]

\* Polling an ActorJoinHandle: ready once the mailbox is disconnected.
JoinReady(h) == ~h.listening \/ ~Address_is_connected(h)

\* ---------------------------------------------------------- SendFuture
\* A message: M carries no identity of its own, so it is told apart by the
\* channel it was sent on and the actor that channel was built from.
Message(i, m) == [chan |-> i, actor |-> m]

\* No ActorJoinHandle, no Sink, and a caller that has not called yet.
NoJoin == [state |-> "none", mb |-> None, listening |-> FALSE]

NoSink == [state |-> "none", chan |-> NoChannel, future |-> 0]

NoCaller == [next |-> 1, cur |-> 0, log |-> <<>>, ok |-> {}]

NoSend ==
  [state |-> "none", mb |-> None, strong |-> FALSE,
   message |-> Message(0, None), result |-> None, late |-> FALSE]

\* SendFuture::sending_erased(message, sender): nothing is sent before the
\* first poll; the future owns the sender handle it was given.  `late`
\* remembers that the mailbox was already disconnected at that moment.
sending_erased(message, sender) ==
  [state |-> "New", mb |-> sender.mb, strong |-> sender.strong,
   message |-> message, result |-> None,
   late |-> ~Address_is_connected(sender)]

\* Handler::handle of the actor behind mailbox m (WhatsYourName).
Handle(m) == m

\* The mailbox is bounded and has no room left.
Full(m) ==
  /\ Address_capacity([mb |-> m]) # <<>>
  /\ Len(queue[m]) >= Address_capacity([mb |-> m])[1]

\* ------------------------------------------------------ RecordingHasher
\* usize::to_ne_bytes on a little-endian target: UsizeBytes bytes, low first.
RECURSIVE ByteAt(_, _)
ByteAt(n, i) == IF i = 1 THEN n % 256 ELSE ByteAt(n \div 256, i - 1)

to_ne_bytes(n) == [i \in 1..UsizeBytes |-> ByteAt(n, i)]

\* Hasher::write_usize: write(&i.to_ne_bytes()).
write_usize(state, n) == state \o to_ne_bytes(n)

\* Hasher::write_u8: write(&[i]).
write_u8(state, b) == state \o <<b % 256>>

\* bool as u8
as_u8(b) == IF b THEN 1 ELSE 0

\* ------------------------------- impl MessageChannelTrait for Address
MessageChannelTrait_is_connected(a) == Address_is_connected(a)

MessageChannelTrait_len(a) == Address_len(a)

MessageChannelTrait_capacity(a) == Address_capacity(a)

MessageChannelTrait_send_upgrading(a, message) ==
  LET p == Ptr(a.mb, "Strong", TRUE) IN
    Ret(sending_erased(message, p), Increment(sender_count, p))

\* A send that gives up at once, whatever the state of the mailbox.
MessageChannelTrait_send_rejecting(a, message) ==
  Ret([sending_erased(message, Ptr(a.mb, "Weak", FALSE))
         EXCEPT !.state = "Dropped"], sender_count)

\* A send that counts a clone of the handle and never gives it back.
MessageChannelTrait_send_leaking(a, message) ==
  Ret(sending_erased(message, Ptr(a.mb, "Weak", FALSE)),
      Increment(sender_count, PtrOf(a)))

MessageChannelTrait_send(a, message) ==
  LET r == Ptr_clone(PtrOf(a)) IN Ret(sending_erased(message, r.ret), r.sc)

\* A clone that is always a counted strong handle.
clone_channel_upgrading(a) ==
  LET p == Ptr(a.mb, a.rc, TRUE) IN
    Ret(Address(p), Increment(sender_count, p))

clone_channel_uncounted(a) == Ret(Address_clone(a).ret, sender_count)

clone_channel_as_weak(a) ==
  LET r == to_tx_weak(PtrOf(a)) IN Ret(Address(r.ret), r.sc)

clone_channel(a) == Address_clone(a)

MessageChannelTrait_join(a) == Address_join(a)

to_inner_ptr(a) == inner_ptr(PtrOf(a))

\* A strength that is probed from the mailbox's liveness on each call.
is_strong_while_connected(a) ==
  Ptr_is_strong(PtrOf(a)) /\ Address_is_connected(a)

is_strong(a) == Ptr_is_strong(PtrOf(a))

to_weak_as_clone(a) == Address_clone(a)

to_weak(a) ==
  LET r == to_tx_weak(PtrOf(a)) IN Ret(Address(r.ret), r.sc)

MessageChannelTrait_sender_count(a) == sender_count[a.mb]

MessageChannelTrait_receiver_count(a) == receiver_count[a.mb]

to_either_always_weak(a) ==
  Ret(Address(Ptr(a.mb, "Either", FALSE)), sender_count)

to_either(a) ==
  LET r == to_tx_either(PtrOf(a)) IN Ret(Address(r.ret), r.sc)

hash_pointer_only(a, state) == write_usize(state, to_inner_ptr(a))

\* The bytes the hasher has received after hash(): pointer, then flag.
hash(a, state) ==
  write_u8(write_usize(state, to_inner_ptr(a)), as_u8(is_strong(a)))

\* ------------------------------------------------------ MessageChannel
\* MessageChannel { inner: Box<address> }
MessageChannel(a) ==
  [kind |-> "channel", mb |-> a.mb, rc |-> a.rc, strong |-> a.strong]

\* self.inner
inner(c) == Address(PtrOf(c))

new_counting(a) == Ret(MessageChannel(a), Increment(sender_count, PtrOf(a)))

\* The address is moved into the box: no counter is touched.
new(a) == Ret(MessageChannel(a), sender_count)

\* Connected for as long as the actor runs, whoever still refers to it.
is_connected_while_running(c) == receiver_count[c.mb] > 0

is_connected(c) == MessageChannelTrait_is_connected(inner(c))

len_of_strong_only(c) ==
  IF c.strong THEN MessageChannelTrait_len(inner(c)) ELSE 0

len(c) == MessageChannelTrait_len(inner(c))

\* The room that is left in the mailbox instead of its bound.
capacity_remaining(c) ==
  LET n == MessageChannelTrait_capacity(inner(c)) IN
    IF n = <<>> THEN n ELSE Some(n[1] - MessageChannelTrait_len(inner(c)))

capacity(c) == MessageChannelTrait_capacity(inner(c))

is_empty(c) == len(c) = 0

same_actor_and_strength(c, other) ==
  /\ to_inner_ptr(inner(c)) = to_inner_ptr(inner(other))
  /\ c.strong = other.strong

same_actor(c, other) == to_inner_ptr(inner(c)) = to_inner_ptr(inner(other))

eq_ignoring_strength(c, other) == same_actor(c, other)

eq(c, other) ==
  same_actor(c, other) /\ (is_strong(inner(c)) = is_strong(inner(other)))

\* <MessageChannel as Hash>::hash into a fresh RecordingHasher
MessageChannel_hash(c) == hash(inner(c), <<>>)

clone(c) ==
  LET r == clone_channel(inner(c)) IN Ret(MessageChannel(r.ret), r.sc)

downgrade(c) ==
  LET r == to_weak(inner(c)) IN Ret(MessageChannel(r.ret), r.sc)

as_either(c) ==
  LET r == to_either(inner(c)) IN Ret(MessageChannel(r.ret), r.sc)

\* A send whose future only waits for an answer: the message is never
\* handed to the mailbox.
send_awaiting_only(c, message) ==
  Ret([sending_erased(message, Ptr(c.mb, "Weak", FALSE))
         EXCEPT !.state = "Enqueued"], sender_count)

\* A send that reports the handler's answer without waiting for the
\* message to be taken by the mailbox.
send_resolved_early(c, message) ==
  Ret([sending_erased(message, Ptr(c.mb, "Weak", FALSE))
         EXCEPT !.state = "Done", !.result = Handle(c.mb)], sender_count)

send_to_first_actor(c, message) ==
  MessageChannelTrait_send(inner([c EXCEPT !.mb = "Alice"]), message)

send(c, message) == MessageChannelTrait_send(inner(c), message)

\* A join whose handle is complete from the start.
\* futures_util::sink::unfold(state, f): a sink that holds the state value
\* until an item arrives, and then the future f made of it.
unfold(c) == [state |-> "Value", chan |-> c, future |-> 0]

\* A closure that drops the send it made and reports success at once.
into_sink_forget(c, message) ==
  Ret([sending_erased(message, PtrOf(c)) EXCEPT !.state = "Done"],
      sender_count)

\* The closure of into_sink: move |(), message| self.send(message)
into_sink_send(c, message) == send(c, message)

into_sink(c) == unfold(c)

join_completed(c) == [MessageChannelTrait_join(inner(c)) EXCEPT !.listening = FALSE]

join(c) == MessageChannelTrait_join(inner(c))

\* --------------------------------------------------------------- state
Live == {i \in Slots : channels[i].kind = "channel"}
Free == {i \in Slots : channels[i].kind = "none"}

\* A new handle goes to the first free slot.
NextFree == CHOOSE i \in Free : \A j \in Free : i <= j

\* The record of an operation: what it was applied to, and the counters,
\* queue length and connection state it started from.
Op(op, src, dst, m, val, res) ==
  [op |-> op, src |-> src, dst |-> dst, mb |-> m, val |-> val, res |-> res,
   pre |-> sender_count,
   len |-> Len(queue[m]),
   conn |-> Address_is_connected([mb |-> m])]

Init ==
  /\ address = [m \in Mailboxes |-> TRUE]
  /\ channels = [i \in Slots |-> NoChannel]
  /\ sender_count = [m \in Mailboxes |-> 1]
  /\ receiver_count = [m \in Mailboxes |-> 1]
  /\ queue = [m \in Mailboxes |-> <<>>]
  /\ sends = [s \in SendIds |-> NoSend]
  /\ last = [op |-> "init", src |-> 0, dst |-> 0, mb |-> None,
             val |-> NoChannel, res |-> None,
             pre |-> sender_count, len |-> 0, conn |-> TRUE]
  /\ joins = [j \in JoinIds |-> NoJoin]
  /\ sink = NoSink
  /\ caller = NoCaller

\* MessageChannel::new(address): the address moves into the channel.
NewFromAddress(m) ==
  /\ address[m]
  /\ Free # {}
  /\ LET r == new(RootAddress(m)) IN
       /\ channels' = [channels EXCEPT ![NextFree] = r.ret]
       /\ sender_count' = r.sc
  /\ address' = [address EXCEPT ![m] = FALSE]
  /\ last' = Op("new", 0, NextFree, m, RootAddress(m), None)
  /\ UNCHANGED <<receiver_count, queue, sends, joins, sink, caller>>

\* MessageChannel::new(address.clone())
NewFromClone(m) ==
  /\ address[m]
  /\ Free # {}
  /\ LET a == Address_clone(RootAddress(m))
         r == new(a.ret) IN
       /\ channels' = [channels EXCEPT ![NextFree] = r.ret]
       /\ sender_count' = [k \in Mailboxes |->
                             a.sc[k] + (r.sc[k] - sender_count[k])]
       /\ last' = Op("new_clone", 0, NextFree, m, a.ret, None)
  /\ UNCHANGED <<address, receiver_count, queue, sends, joins, sink, caller>>

\* MessageChannel::new(address.downgrade())
NewFromDowngrade(m) ==
  /\ address[m]
  /\ Free # {}
  /\ LET a == Address_downgrade(RootAddress(m))
         r == new(a.ret) IN
       /\ channels' = [channels EXCEPT ![NextFree] = r.ret]
       /\ sender_count' = [k \in Mailboxes |->
                             a.sc[k] + (r.sc[k] - sender_count[k])]
       /\ last' = Op("new_weak", 0, NextFree, m, a.ret, None)
  /\ UNCHANGED <<address, receiver_count, queue, sends, joins, sink, caller>>

\* let d = c.clone()
Clone(i) ==
  /\ i \in Live
  /\ Free # {}
  /\ LET c == channels[i]
         r == clone(c) IN
       /\ channels' = [channels EXCEPT ![NextFree] = r.ret]
       /\ sender_count' = r.sc
       /\ last' = Op("clone", i, NextFree, c.mb, c, None)
  /\ UNCHANGED <<address, receiver_count, queue, sends, joins, sink, caller>>

\* let d = c.downgrade(): only for MessageChannel<M, R, Strong | Either>
Downgrade(i) ==
  /\ i \in Live
  /\ channels[i].rc \in {"Strong", "Either"}
  /\ Free # {}
  /\ LET c == channels[i]
         r == downgrade(c) IN
       /\ channels' = [channels EXCEPT ![NextFree] = r.ret]
       /\ sender_count' = r.sc
       /\ last' = Op("downgrade", i, NextFree, c.mb, c, None)
  /\ UNCHANGED <<address, receiver_count, queue, sends, joins, sink, caller>>

\* let d = c.as_either()
AsEither(i) ==
  /\ i \in Live
  /\ Free # {}
  /\ LET c == channels[i]
         r == as_either(c) IN
       /\ channels' = [channels EXCEPT ![NextFree] = r.ret]
       /\ sender_count' = r.sc
       /\ last' = Op("as_either", i, NextFree, c.mb, c, None)
  /\ UNCHANGED <<address, receiver_count, queue, sends, joins, sink, caller>>

\* drop(c)
Drop(i) ==
  /\ i \in Live
  /\ LET c == channels[i] IN
       /\ channels' = [channels EXCEPT ![i] = NoChannel]
       /\ sender_count' = Decrement(sender_count, PtrOf(c))
       /\ last' = Op("drop", i, 0, c.mb, c, None)
  /\ UNCHANGED <<address, receiver_count, queue, sends, joins, sink, caller>>

\* drop(address)
DropAddress(m) ==
  /\ address[m]
  /\ address' = [address EXCEPT ![m] = FALSE]
  /\ sender_count' = Decrement(sender_count, PtrOf(RootAddress(m)))
  /\ last' = Op("drop_address", 0, 0, m, RootAddress(m), None)
  /\ UNCHANGED <<channels, receiver_count, queue, sends, joins, sink, caller>>

\* The actor stops and drops its mailbox (the receiver).
\* The messages still queued are dropped unanswered.
ActorStop(m) ==
  /\ receiver_count[m] > 0
  /\ receiver_count' = [receiver_count EXCEPT ![m] = @ - 1]
  /\ queue' = [queue EXCEPT ![m] = <<>>]
  /\ sends' = [k \in SendIds |->
                 IF sends[k].state = "Enqueued" /\ sends[k].mb = m
                 THEN [sends[k] EXCEPT !.state = "Dropped"]
                 ELSE sends[k]]
  /\ last' = Op("stop", 0, 0, m, NoChannel, None)
  /\ UNCHANGED <<address, channels, sender_count, joins, sink, caller>>

\* let f = c.send(message): the future is created, nothing is sent yet.
Send(i, k) ==
  /\ i \in Live
  /\ sends[k].state = "none"
  /\ \A m \in Mailboxes : \A n \in 1..Len(queue[m]) : queue[m][n] # k
  /\ \A j \in SendIds : j < k => sends[j].state # "none"
  /\ LET c == channels[i]
         r == send(c, Message(i, c.mb)) IN
       /\ sends' = [sends EXCEPT ![k] = r.ret]
       /\ sender_count' = r.sc
       /\ last' = Op("send", i, k, c.mb, c, None)
  /\ UNCHANGED <<address, channels, receiver_count, queue, joins, sink, caller>>

\* Polling a future that has not handed its message over yet: the send fails
\* on a disconnected mailbox, waits on a full one, and otherwise enqueues
\* the message and drops its sender handle.
PollSending(k) ==
  /\ sends[k].state \in {"New", "Waiting"}
  /\ LET f == sends[k]
         m == f.mb IN
       IF ~Address_is_connected(f) THEN
         /\ sends' = [sends EXCEPT ![k] = NoSend]
         /\ sender_count' = Decrement(sender_count, f)
         /\ queue' = queue
         /\ last' = Op("poll", f.message.chan, k, m, f, "Disconnected")
       ELSE IF Full(m) THEN
         /\ f.state = "New"
         /\ sends' = [sends EXCEPT ![k].state = "Waiting"]
         /\ UNCHANGED <<sender_count, queue>>
         /\ last' = Op("poll", f.message.chan, k, m, f, "Pending")
       ELSE
         /\ sends' = [sends EXCEPT ![k].state = "Enqueued",
                                   ![k].strong = FALSE]
         /\ sender_count' = Decrement(sender_count, f)
         /\ queue' = [queue EXCEPT ![m] = Append(@, k)]
         /\ last' = Op("poll", f.message.chan, k, m, f, "Enqueued")
  /\ UNCHANGED <<address, channels, receiver_count, joins, sink, caller>>

\* Polling a future whose message was handled, or dropped unanswered.
PollResult(k) ==
  /\ sends[k].state \in {"Done", "Dropped"}
  /\ LET f == sends[k] IN
       last' = Op("poll", f.message.chan, k, f.mb, f,
                  IF f.state = "Done" THEN f.result ELSE "Disconnected")
  /\ sends' = [sends EXCEPT ![k] = NoSend]
  /\ UNCHANGED <<address, channels, sender_count, receiver_count, queue, joins, sink, caller>>

\* drop(f) before it resolved; a message already queued stays queued.
Cancel(k) ==
  /\ sends[k].state # "none"
  /\ sends' = [sends EXCEPT ![k] = NoSend]
  /\ sender_count' = Decrement(sender_count, sends[k])
  /\ last' = Op("cancel", sends[k].message.chan, k, sends[k].mb, sends[k], None)
  /\ UNCHANGED <<address, channels, receiver_count, queue, joins, sink, caller>>

\* The actor takes the oldest message and its handler answers it.
ActorHandle(m) ==
  /\ receiver_count[m] > 0
  /\ queue[m] # <<>>
  /\ LET k == Head(queue[m]) IN
       /\ queue' = [queue EXCEPT ![m] = Tail(@)]
       /\ sends' = IF sends[k].state = "Enqueued"
                   THEN [sends EXCEPT ![k].state = "Done",
                                      ![k].result = Handle(m)]
                   ELSE sends
       /\ last' = Op("handle", 0, k, m, sends[k], Handle(m))
  /\ UNCHANGED <<address, channels, sender_count, receiver_count, joins, sink, caller>>

\* c.join() polled once: ready, or still pending and dropped again.
Join(i) ==
  /\ i \in Live
  /\ LET c == channels[i]
         h == join(c) IN
       last' = Op("join", i, 0, c.mb, c,
                  IF JoinReady(h) THEN "Ready" ELSE "Pending")
  /\ UNCHANGED <<address, channels, sender_count, receiver_count, queue,
                 sends, joins, sink, caller>>

Next ==
  \/ \E m \in Mailboxes : NewFromAddress(m)
  \/ \E m \in Mailboxes : NewFromClone(m)
  \/ \E m \in Mailboxes : NewFromDowngrade(m)
  \/ \E i \in Slots : Clone(i)
  \/ \E i \in Slots : Downgrade(i)
  \/ \E i \in Slots : AsEither(i)
  \/ \E i \in Slots : Drop(i)
  \/ \E m \in Mailboxes : DropAddress(m)
  \/ \E m \in Mailboxes : ActorStop(m)

Spec == Init /\ [][Next]_vars

\* ------------------------------------------------------------ messaging
\* Channels as the operations above leave them: one built from Alice's
\* address, and a second one downgraded or converted from it, or built from
\* Bob's address.
Chan(m, rc, strong) == MessageChannel(Address(Ptr(m, rc, strong)))

SecondChannels ==
  { Chan("Alice", "Weak", FALSE), Chan("Alice", "Either", TRUE),
    Chan("Bob", "Strong", TRUE) }

InitSend ==
  /\ \E second \in SecondChannels :
       /\ channels = [i \in Slots |->
                        IF i = 1 THEN Chan("Alice", "Strong", TRUE)
                        ELSE IF i = 2 THEN second ELSE NoChannel]
       /\ address = [m \in Mailboxes |-> m = "Bob" /\ second.mb # "Bob"]
  /\ sends = [k \in SendIds |-> NoSend]
  /\ sender_count = [m \in Mailboxes |->
       (IF address[m] THEN 1 ELSE 0)
       + Cardinality({i \in Slots : channels[i].mb = m /\ channels[i].strong})]
  /\ receiver_count = [m \in Mailboxes |-> 1]
  /\ queue = [m \in Mailboxes |-> <<>>]
  /\ last = [op |-> "init", src |-> 0, dst |-> 0, mb |-> None,
             val |-> NoChannel, res |-> None,
             pre |-> sender_count, len |-> 0, conn |-> TRUE]
  /\ joins = [j \in JoinIds |-> NoJoin]
  /\ sink = NoSink
  /\ caller = NoCaller

NextSend ==
  \/ \E i \in Slots, k \in SendIds : Send(i, k)
  \/ \E k \in SendIds : PollSending(k)
  \/ \E k \in SendIds : PollResult(k)
  \/ \E k \in SendIds : Cancel(k)
  \/ \E m \in Mailboxes : ActorHandle(m)
  \/ \E i \in Slots : Join(i)
  \/ \E i \in Slots : Drop(i)
  \/ \E m \in Mailboxes : DropAddress(m)
  \/ \E m \in Mailboxes : ActorStop(m)

SpecSend == InitSend /\ [][NextSend]_vars

\* -------------------------------------------------------------- joining
\* let h = c.join(): the handle is kept to be awaited.
JoinStart(i, j) ==
  /\ i \in Live
  /\ joins[j].state = "none"
  /\ \A n \in JoinIds : n < j => joins[n].state # "none"
  /\ LET c == channels[i]
         h == join(c) IN
       /\ joins' = [joins EXCEPT ![j] = [state |-> "pending", mb |-> h.mb,
                                         listening |-> h.listening]]
       /\ last' = Op("join_start", i, j, c.mb, c, None)
  /\ UNCHANGED <<address, channels, sender_count, receiver_count, queue,
                 sends, sink, caller>>

\* h.await polled: it completes once the mailbox is disconnected.
JoinPoll(j) ==
  /\ joins[j].state = "pending"
  /\ LET h == joins[j] IN
       IF JoinReady(h) THEN
         /\ joins' = [joins EXCEPT ![j] = NoJoin]
         /\ last' = Op("join_poll", 0, j, h.mb, NoChannel, "Ready")
       ELSE
         /\ joins' = joins
         /\ last' = Op("join_poll", 0, j, h.mb, NoChannel, "Pending")
  /\ UNCHANGED <<address, channels, sender_count, receiver_count, queue,
                 sends, sink, caller>>

\* drop(h) while it is pending.
JoinDrop(j) ==
  /\ joins[j].state = "pending"
  /\ joins' = [joins EXCEPT ![j] = NoJoin]
  /\ last' = Op("join_drop", 0, j, joins[j].mb, NoChannel, None)
  /\ UNCHANGED <<address, channels, sender_count, receiver_count, queue,
                 sends, sink, caller>>

NextJoin ==
  \/ \E i \in Slots, j \in JoinIds : JoinStart(i, j)
  \/ \E j \in JoinIds : JoinPoll(j)
  \/ \E j \in JoinIds : JoinDrop(j)
  \/ \E i \in Slots : Drop(i)
  \/ \E m \in Mailboxes : DropAddress(m)
  \/ \E m \in Mailboxes : ActorStop(m)

\* The executor polls a join handle again whenever it can make progress.
SpecJoin ==
  InitSend /\ [][NextJoin]_vars /\ \A j \in JoinIds : WF_vars(JoinPoll(j))

\* ----------------------------------------------------------------- sink
\* The outcome of polling the SendFuture k once, whatever state it is in.
Polled(k) ==
  LET f == sends[k]
      m == f.mb IN
    IF f.state \in {"New", "Waiting"} THEN
      IF ~Address_is_connected(f) THEN
        [sends |-> [sends EXCEPT ![k] = NoSend],
         sc |-> Decrement(sender_count, f), queue |-> queue,
         res |-> "Disconnected"]
      ELSE IF Full(m) THEN
        [sends |-> [sends EXCEPT ![k].state = "Waiting"],
         sc |-> sender_count, queue |-> queue, res |-> "Pending"]
      ELSE
        [sends |-> [sends EXCEPT ![k].state = "Enqueued",
                                 ![k].strong = FALSE],
         sc |-> Decrement(sender_count, f),
         queue |-> [queue EXCEPT ![m] = Append(@, k)], res |-> "Pending"]
    ELSE IF f.state = "Enqueued" THEN
      [sends |-> sends, sc |-> sender_count, queue |-> queue,
       res |-> "Pending"]
    ELSE
      [sends |-> [sends EXCEPT ![k] = NoSend],
       sc |-> sender_count, queue |-> queue,
       res |-> IF f.state = "Done" THEN "Ready" ELSE "Disconnected"]

\* let sink = c.into_sink(): the channel moves into the sink.
IntoSink(i) ==
  /\ i \in Live
  /\ sink.state = "none"
  /\ sink' = into_sink(channels[i])
  /\ channels' = [channels EXCEPT ![i] = NoChannel]
  /\ last' = Op("into_sink", i, 0, channels[i].mb, channels[i], None)
  /\ UNCHANGED <<address, sender_count, receiver_count, queue, sends, joins,
                 caller>>

\* Sink::poll_ready, which is poll_flush: the future in flight is polled; its
\* Ok puts the state value back, its Err leaves the sink empty.  Without a
\* future in flight the sink answers Ready.
SinkPollReady ==
  /\ sink.state # "none"
  /\ IF sink.state = "Future" THEN
       LET k == sink.future
           r == Polled(k) IN
         /\ sends' = r.sends
         /\ sender_count' = r.sc
         /\ queue' = r.queue
         /\ sink' = IF r.res = "Ready"
                    THEN [sink EXCEPT !.state = "Value", !.future = 0]
                    ELSE IF r.res = "Disconnected"
                    THEN [sink EXCEPT !.state = "Empty", !.future = 0]
                    ELSE sink
         /\ last' = Op("poll_ready", 0, k, sink.chan.mb, sends[k], r.res)
     ELSE
       /\ UNCHANGED <<sends, sender_count, queue, sink>>
       /\ last' = Op("poll_ready", 0, 0, sink.chan.mb, sink, "Ready")
  /\ UNCHANGED <<address, channels, receiver_count, joins, caller>>

\* Sink::start_send(item): the closure makes the future out of the state
\* value; without a state value the call panics and accepts nothing.
SinkStartSend(k) ==
  /\ sink.state # "none"
  /\ sends[k].state = "none"
  /\ \A m \in Mailboxes : \A n \in 1..Len(queue[m]) : queue[m][n] # k
  /\ \A j \in SendIds : j < k => sends[j].state # "none"
  /\ IF sink.state = "Value" THEN
       LET c == sink.chan
           r == into_sink_send(c, Message(0, c.mb)) IN
         /\ sends' = [sends EXCEPT ![k] = r.ret]
         /\ sender_count' = r.sc
         /\ sink' = [sink EXCEPT !.state = "Future", !.future = k]
         /\ last' = Op("start_send", 0, k, c.mb, sink, "Ok")
     ELSE
       /\ UNCHANGED <<sends, sender_count, sink>>
       /\ last' = Op("start_send", 0, k, sink.chan.mb, sink, "Panic")
  /\ UNCHANGED <<address, channels, receiver_count, queue, joins, caller>>

NextSink ==
  \/ \E i \in Slots : IntoSink(i)
  \/ SinkPollReady
  \/ \E k \in SendIds : SinkStartSend(k)
  \/ \E i \in Slots, k \in SendIds : Send(i, k)
  \/ \E k \in SendIds : k # sink.future /\ PollSending(k)
  \/ \E k \in SendIds : k # sink.future /\ PollResult(k)
  \/ \E m \in Mailboxes : ActorHandle(m)
  \/ \E i \in Slots : Drop(i)
  \/ \E m \in Mailboxes : DropAddress(m)
  \/ \E m \in Mailboxes : ActorStop(m)

SpecSink == InitSend /\ [][NextSink]_vars

\* The executor polls a woken future again, and a running actor keeps
\* taking messages from its queue.
NextResolve ==
  \/ \E i \in Slots, k \in SendIds : Send(i, k)
  \/ \E k \in SendIds : PollSending(k)
  \/ \E k \in SendIds : PollResult(k)
  \/ \E m \in Mailboxes : ActorHandle(m)
  \/ \E i \in Slots : Drop(i)
  \/ \E m \in Mailboxes : ActorStop(m)

SpecSendFair ==
  /\ InitSend /\ [][NextResolve]_vars
  /\ \A k \in SendIds : WF_vars(PollSending(k) \/ PollResult(k))
  /\ \A m \in Mailboxes : WF_vars(ActorHandle(m))

\* ------------------------------------------------------ sequential caller
\* One caller sends through the first channel and awaits each send before
\* it issues the next; caller.log lists its calls in the order in which
\* their messages entered the queue, caller.ok the calls answered.
CallerSend(k) ==
  /\ 1 \in Live
  /\ caller.cur = 0
  /\ caller.next <= MaxCalls
  /\ sends[k].state = "none"
  /\ \A m \in Mailboxes : \A n \in 1..Len(queue[m]) : queue[m][n] # k
  /\ \A j \in SendIds : j < k => sends[j].state # "none"
  /\ LET c == channels[1]
         r == send(c, Message(1, c.mb)) IN
       /\ sends' = [sends EXCEPT ![k] = r.ret]
       /\ sender_count' = r.sc
       /\ last' = Op("send", 1, k, c.mb, c, None)
  /\ caller' = [caller EXCEPT !.cur = k]
  /\ UNCHANGED <<address, channels, receiver_count, queue, joins, sink>>

\* The caller's .await: the future of its current call is polled.
CallerAwait ==
  /\ caller.cur # 0
  /\ LET k == caller.cur
         r == Polled(k)
         enqueued == sends[k].state \in {"New", "Waiting"}
                       /\ r.sends[k].state = "Enqueued" IN
       /\ sends' = r.sends
       /\ sender_count' = r.sc
       /\ queue' = r.queue
       /\ caller' =
            [next |-> IF r.res = "Pending" THEN caller.next
                      ELSE caller.next + 1,
             cur |-> IF r.res = "Pending" THEN k ELSE 0,
             log |-> IF enqueued THEN Append(caller.log, caller.next)
                     ELSE caller.log,
             ok |-> IF r.res = "Ready" THEN caller.ok \cup {caller.next}
                    ELSE caller.ok]
       /\ last' = Op("await", 1, k, sends[k].mb, sends[k], r.res)
  /\ UNCHANGED <<address, channels, receiver_count, joins, sink>>

NextSeq ==
  \/ \E k \in SendIds : CallerSend(k)
  \/ CallerAwait
  \/ \E i \in Slots \ {1}, k \in SendIds : Send(i, k)
  \/ \E k \in SendIds : k # caller.cur /\ PollSending(k)
  \/ \E k \in SendIds : k # caller.cur /\ PollResult(k)
  \/ \E m \in Mailboxes : ActorHandle(m)
  \/ \E i \in Slots : Drop(i)
  \/ \E m \in Mailboxes : ActorStop(m)

SpecSeq == InitSend /\ [][NextSeq]_vars

\* ================================================================ claims
\* The channel an operation was applied to and the channel it returned.
Src == channels[last.src]
Dst == channels[last.dst]

\* Two channels refer to the same mailbox with the same strength class.
SameKey(c, d) == c.mb = d.mb /\ c.strong = d.strong

\* usize::from_ne_bytes, the inverse reading of the pointer field.
RECURSIVE from_ne_bytes(_)
from_ne_bytes(bytes) ==
  IF bytes = <<>> THEN 0 ELSE Head(bytes) + 256 * from_ne_bytes(Tail(bytes))

\* The strong references a mailbox is owed: the spawner's address, the live
\* strong-class channels, and the handles cloned into pending sends.
StrongRefs(m) ==
  (IF address[m] THEN 1 ELSE 0)
  + Cardinality({i \in Live : channels[i].mb = m /\ channels[i].strong})
  + Cardinality({k \in SendIds : sends[k].mb = m /\ sends[k].strong})

\* C1: two channels compare equal exactly when they refer to the same
\* mailbox and agree on is_strong(); a clone equals its original, channels
\* built from the same address are equal, channels over different mailboxes
\* are unequal.
C1_EqIffSameMailboxAndStrength ==
  /\ \A i, j \in Live :
       /\ eq(channels[i], channels[j]) <=> SameKey(channels[i], channels[j])
       /\ channels[i].mb # channels[j].mb => ~eq(channels[i], channels[j])
       /\ (channels[i].rc = channels[j].rc /\ channels[i].rc # "Either"
           /\ channels[i].mb = channels[j].mb)
            => eq(channels[i], channels[j])
  /\ last.op = "clone" => eq(Dst, Src) /\ eq(Src, Dst)

C1_Witness ==
  /\ last.op = "clone"
  /\ eq(Dst, Src)
  /\ Dst.mb = Src.mb /\ Dst.strong = Src.strong

\* C2: the bytes a channel writes into a hasher are the mailbox pointer
\* followed by the strength flag as a field of its own; two channels write
\* the same bytes exactly when they share mailbox and strength; the data is
\* never empty.
C2_HashIffSameMailboxAndStrength ==
  /\ \A i, j \in Live :
       (MessageChannel_hash(channels[i]) = MessageChannel_hash(channels[j]))
         <=> SameKey(channels[i], channels[j])
  /\ \A i \in Live :
       LET h == MessageChannel_hash(channels[i]) IN
         /\ h # <<>>
         /\ Len(h) = UsizeBytes + 1
         /\ from_ne_bytes(SubSeq(h, 1, UsizeBytes)) = inner_ptr(channels[i])
         /\ h[UsizeBytes + 1] = (IF channels[i].strong THEN 1 ELSE 0)
  /\ last.op = "clone" =>
       MessageChannel_hash(Dst) = MessageChannel_hash(Src)

C2_Witness ==
  \E i, j \in Live :
    /\ i # j
    /\ channels[i].mb = channels[j].mb
    /\ channels[i].strong /\ ~channels[j].strong
    /\ MessageChannel_hash(channels[i]) # MessageChannel_hash(channels[j])
    /\ SubSeq(MessageChannel_hash(channels[i]), 1, UsizeBytes)
         = SubSeq(MessageChannel_hash(channels[j]), 1, UsizeBytes)

\* C3: same_actor is true exactly when the two channels refer to the same
\* mailbox, whatever their strengths; a Strong and a Weak channel over one
\* mailbox are unequal and still the same actor.
C3_SameActorIffSameMailbox ==
  \A i, j \in Live :
    /\ same_actor(channels[i], channels[j])
         <=> channels[i].mb = channels[j].mb
    /\ (channels[i].mb = channels[j].mb
        /\ channels[i].strong /\ ~channels[j].strong)
         => /\ ~eq(channels[i], channels[j])
            /\ same_actor(channels[i], channels[j])
            /\ same_actor(channels[j], channels[i])

C3_Witness ==
  \E i, j \in Live :
    /\ channels[i].rc = "Strong" /\ channels[j].rc = "Weak"
    /\ channels[i].mb = channels[j].mb
    /\ ~eq(channels[i], channels[j])
    /\ same_actor(channels[i], channels[j])

\* C4: a clone refers to the same mailbox and has the same strength class as
\* its original, connected or not: it is the same actor, it compares equal,
\* and the original is left as it was.
C4_ClonePreservesIdentity ==
  last.op = "clone" =>
    /\ Dst.kind = "channel"
    /\ Dst.mb = last.val.mb
    /\ Dst.strong = last.val.strong
    /\ Dst.rc = last.val.rc
    /\ same_actor(Dst, Src)
    /\ eq(Dst, Src)
    /\ Src = last.val

C4_Witness ==
  /\ last.op = "clone"
  /\ ~is_connected(Src)
  /\ eq(Dst, Src)

\* C5: downgrade of a Strong or Either channel always succeeds and yields a
\* Weak channel over the same mailbox: not strong, the same actor, unequal
\* to a strong-class original and equal to an Either that wraps Weak.
C5_DowngradeYieldsWeak ==
  /\ last.op = "downgrade" =>
       /\ Dst.kind = "channel"
       /\ Dst.rc = "Weak"
       /\ ~is_strong(inner(Dst))
       /\ Dst.mb = last.val.mb
       /\ same_actor(Dst, Src)
       /\ last.val.strong => ~eq(Dst, Src)
       /\ ~last.val.strong => eq(Dst, Src)
       /\ Src = last.val
  /\ \A i \in Live :
       (channels[i].rc \in {"Strong", "Either"} /\ Free # {})
         => ENABLED Downgrade(i)

C5_Witness ==
  /\ last.op = "downgrade"
  /\ Src.rc = "Either" /\ ~Src.strong
  /\ eq(Dst, Src)

\* C6: as_either yields a channel over the same mailbox with the runtime
\* strength of its original: is_strong agrees, the two compare equal, and
\* as_either of the result is equal again.
C6_AsEitherPreservesStrength ==
  last.op = "as_either" =>
    /\ Dst.kind = "channel"
    /\ Dst.rc = "Either"
    /\ Dst.mb = last.val.mb
    /\ Dst.strong = last.val.strong
    /\ is_strong(inner(Dst)) = is_strong(inner(Src))
    /\ eq(Dst, Src)
    /\ eq(as_either(Dst).ret, Dst)
    /\ SameKey(as_either(Dst).ret, last.val)
    /\ Src = last.val

C6_Witness ==
  /\ last.op = "as_either"
  /\ Src.rc = "Strong"
  /\ Dst.rc = "Either" /\ is_strong(inner(Dst))

\* The positions of mailbox m's queue and the futures still waiting there.
Queued(m) == {queue[m][n] : n \in 1..Len(queue[m])}

\* C7: a send issued on a channel whose mailbox is already disconnected
\* resolves to Err(Disconnected) on its first poll, without its message
\* being enqueued and without being suspended; a join issued on a
\* disconnected mailbox is complete at once.
C7_SendToDisconnectedFails ==
  /\ \A k \in SendIds :
       sends[k].late =>
         /\ sends[k].state = "New"
         /\ \A m \in Mailboxes : k \notin Queued(m)
         /\ ~Address_is_connected(sends[k])
         /\ ENABLED PollSending(k)
  /\ (last.op = "poll" /\ last.val.state \in {"New", "Waiting"}
      /\ (last.val.late \/ ~last.conn))
       => /\ last.res = "Disconnected"
          /\ Len(queue[last.mb]) = last.len
          /\ last.dst \notin Queued(last.mb)
          /\ sends[last.dst] = NoSend
  /\ (last.op = "join" /\ ~last.conn) => last.res = "Ready"

C7_Witness ==
  /\ last.op = "poll"
  /\ last.val.late
  /\ last.val.state = "New"
  /\ last.res = "Disconnected"
  /\ receiver_count[last.mb] > 0

\* C8: a message is enqueued only in the mailbox of the actor its channel
\* was built from, is handled by that actor only, and a send that resolves
\* Ok(r) carries that actor's return value.
C8_RoutedToOwnActor ==
  /\ \A k \in SendIds :
       sends[k].state # "none" =>
         /\ sends[k].mb = sends[k].message.actor
         /\ \A m \in Mailboxes :
              k \in Queued(m) => m = sends[k].message.actor
         /\ sends[k].state = "Done" =>
              sends[k].result = Handle(sends[k].message.actor)
  /\ (last.op = "poll" /\ last.res = "Enqueued")
       => /\ last.dst \in Queued(last.val.message.actor)
          /\ \A m \in Mailboxes :
               m # last.val.message.actor => last.dst \notin Queued(m)
  /\ (last.op = "handle" /\ last.val.state = "Enqueued")
       => last.mb = last.val.message.actor
  /\ (last.op = "poll" /\ last.val.state = "Done")
       => last.res = Handle(last.val.message.actor)

C8_Witness ==
  /\ last.op = "poll"
  /\ last.val.state = "Done"
  /\ last.val.message.actor = "Bob"
  /\ last.res = "Bob"
  /\ Len(queue["Alice"]) > 0

\* C9 as amended: every live strong-class channel is counted in its
\* mailbox's strong count and no weak-class channel is.  clone and as_either
\* of a strong-class channel raise the count by one, new moves its address
\* into the channel and leaves the count as it was, dropping a strong-class
\* channel lowers it by one, and creating, cloning, downgrading to or
\* dropping a weak-class channel leaves it unchanged.
C9_StrongChannelsCounted ==
  /\ \A m \in Mailboxes : sender_count[m] = StrongRefs(m)
  /\ (last.op \in {"clone", "as_either", "new_clone"} /\ Dst.strong)
       => sender_count = [last.pre EXCEPT ![Dst.mb] = @ + 1]
  /\ last.op = "new" => sender_count = last.pre
  /\ (last.op = "drop" /\ last.val.strong)
       => sender_count = [last.pre EXCEPT ![last.mb] = @ - 1]
  /\ last.op \in {"new_weak", "downgrade"}
       => ~Dst.strong /\ sender_count = last.pre
  /\ (last.op \in {"clone", "as_either"} /\ ~Dst.strong)
       => sender_count = last.pre
  /\ (last.op = "drop" /\ ~last.val.strong) => sender_count = last.pre

C9_Witness ==
  /\ last.op = "new"
  /\ Dst.strong
  /\ sender_count = last.pre
  /\ sender_count[Dst.mb] = 2
  /\ Cardinality({i \in Live : channels[i].mb = Dst.mb /\ channels[i].strong})
       = 2

\* C9 as claimed: new, too, raises the strong count by one.
C9_NewRaisesCount ==
  /\ \A m \in Mailboxes : sender_count[m] = StrongRefs(m)
  /\ (last.op \in {"new", "new_clone", "clone", "as_either"} /\ Dst.strong)
       => sender_count = [last.pre EXCEPT ![Dst.mb] = @ + 1]
  /\ (last.op = "drop" /\ last.val.strong)
       => sender_count = [last.pre EXCEPT ![last.mb] = @ - 1]
  /\ last.op \in {"new_weak", "downgrade"}
       => ~Dst.strong /\ sender_count = last.pre
  /\ (last.op \in {"clone", "as_either"} /\ ~Dst.strong)
       => sender_count = last.pre
  /\ (last.op = "drop" /\ ~last.val.strong) => sender_count = last.pre

\* C10: len, capacity, is_empty and is_connected are mailbox-wide: channels
\* over one mailbox report the same values, and a message enqueued through
\* one channel is counted by len() of every channel over that mailbox.
C10_MailboxWideCounters ==
  /\ \A i, j \in Live :
       channels[i].mb = channels[j].mb =>
         /\ len(channels[i]) = len(channels[j])
         /\ capacity(channels[i]) = capacity(channels[j])
         /\ is_empty(channels[i]) = is_empty(channels[j])
         /\ is_connected(channels[i]) = is_connected(channels[j])
  /\ \A i \in Live :
       /\ len(channels[i]) >=
            Cardinality({k \in SendIds : sends[k].state = "Enqueued"
                                          /\ sends[k].mb = channels[i].mb})
       /\ is_empty(channels[i]) <=> queue[channels[i].mb] = <<>>
  /\ (last.op = "poll" /\ last.res = "Enqueued") =>
       \A j \in Live :
         channels[j].mb = last.mb =>
           len(channels[j]) = last.len + 1 /\ ~is_empty(channels[j])
  /\ last.op = "handle" =>
       \A j \in Live :
         channels[j].mb = last.mb => len(channels[j]) = last.len - 1

C10_Witness ==
  /\ last.op = "poll"
  /\ last.res = "Enqueued"
  /\ \E j \in Live :
       /\ j # last.src
       /\ channels[j].mb = last.mb
       /\ ~channels[j].strong
       /\ len(channels[j]) = last.len + 1


\* C11: a join never resolves while its mailbox is connected and always
\* resolves once it is disconnected, however many joins are pending; a join
\* polled on a disconnected mailbox is ready at once; pending joins count
\* neither as senders nor as receivers.
PendingJoins(m) == {j \in JoinIds : joins[j].state = "pending" /\ joins[j].mb = m}

C11_JoinPolls ==
  /\ last.op = "join_poll" => (last.res = "Ready" <=> ~last.conn)
  /\ last.op \in {"join_start", "join_poll", "join_drop"} => sender_count = last.pre
  /\ \A m \in Mailboxes : sender_count[m] = StrongRefs(m)

C11_JoinsNotCounted ==
  last'.op \in {"join_start", "join_poll", "join_drop"}
    => sender_count' = sender_count /\ receiver_count' = receiver_count

C11_JoinResolvesIffDisconnected ==
  /\ []C11_JoinPolls
  /\ [][C11_JoinsNotCounted]_vars
  /\ \A j \in JoinIds :
       (joins[j].state = "pending" /\ ~Address_is_connected(joins[j]))
         ~> (joins[j].state = "none")

C11_Witness ==
  /\ last.op = "join_poll"
  /\ last.res = "Ready"
  /\ \E j \in PendingJoins(last.mb) : joins[j].listening
  /\ \E i \in Live : channels[i].mb = last.mb


\* C12: the strength class of a handle is fixed when it is built: is_strong()
\* answers the same for a handle in every state of its life, whatever is
\* done to it or to other handles; a Strong handle never answers false and a
\* Weak one never answers true.
C12_ClassMatchesStrength ==
  \A i \in Live :
    /\ channels[i].rc = "Strong" => is_strong(inner(channels[i]))
    /\ channels[i].rc = "Weak" => ~is_strong(inner(channels[i]))

C12_SameAnswer ==
  \A i \in Slots :
    (channels[i].kind = "channel" /\ channels'[i].kind = "channel")
      => (is_strong(inner(channels[i])))' = is_strong(inner(channels[i]))

SinkSends == {k \in SendIds : sends[k].state # "none" /\ sends[k].message.chan = 0}

C13_SinkOneInFlight ==
  /\ Cardinality(SinkSends) <= 1
  /\ SinkSends = IF sink.state = "Future" THEN {sink.future} ELSE {}
  /\ (last.op = "poll_ready" /\ last.dst # 0) =>
       /\ last.res = "Ready" =>
            /\ last.val.state = "Done" /\ last.val.result = Handle(last.mb)
            /\ sink.state = "Value"
       /\ last.res = "Pending" => sink.state = "Future" /\ sink.future = last.dst
       /\ last.res = "Disconnected" <=>
            \/ last.val.state = "Dropped"
            \/ last.val.state \in {"New", "Waiting"} /\ ~last.conn
       /\ last.res = "Disconnected" => sink.state = "Empty"
  /\ (last.op = "start_send" /\ last.val.state # "Value") =>
       last.res = "Panic" /\ sink = last.val
  /\ (last.op = "start_send" /\ last.res = "Ok") => last.val.state = "Value"

C13_Witness ==
  /\ last.op = "poll_ready"
  /\ last.res = "Ready"
  /\ last.dst # 0
  /\ \E k \in SendIds : sends[k].state = "Waiting" /\ sends[k].mb = last.mb

\* C14: Weak channels do not keep the actor alive: when no strong-class
\* handle to a mailbox is left, the mailbox is disconnected however many Weak
\* channels remain, and from then on every Weak channel answers
\* is_connected() = false, its sends resolve to Err(Disconnected) and its
\* joins are complete.
C14_WeakDoesNotKeepAlive ==
  /\ \A m \in Mailboxes : sender_count[m] = StrongRefs(m)
  /\ \A i \in Live :
       StrongRefs(channels[i].mb) = 0 => ~is_connected(channels[i])
  /\ (last.op = "poll" /\ last.val.state \in {"New", "Waiting"}
        /\ last.pre[last.mb] = 0)
       => last.res = "Disconnected" /\ last.dst \notin Queued(last.mb)
  /\ (last.op = "join" /\ last.pre[last.mb] = 0) => last.res = "Ready"

C14_Witness ==
  /\ last.op = "drop"
  /\ last.val.strong
  /\ StrongRefs(last.mb) = 0
  /\ receiver_count[last.mb] > 0
  /\ \E i \in Live :
       /\ channels[i].mb = last.mb
       /\ channels[i].rc = "Weak"
       /\ ~is_connected(channels[i])
  /\ \E k \in SendIds : sends[k].state = "New" /\ sends[k].mb = last.mb

\* C15: a send does not stay pending on a disconnected mailbox: suspended
\* for capacity or for the handler's answer, it resolves once the mailbox is
\* disconnected, and to Err(Disconnected) unless the handler had answered;
\* no send is left waiting for the answer of an actor that is gone.
C15_DisconnectedOutcome ==
  /\ (last.op = "poll" /\ ~last.conn
        /\ last.val.state \in {"New", "Waiting", "Dropped"})
       => last.res = "Disconnected" /\ sends[last.dst].state = "none"
  /\ \A k \in SendIds :
       sends[k].state \in {"Enqueued", "Dropped"} =>
         (sends[k].state = "Dropped" <=> receiver_count[sends[k].mb] = 0)

Places(k) ==
  {p \in Mailboxes \X (1..MaxSends) :
     p[2] <= Len(queue[p[1]]) /\ queue[p[1]][p[2]] = k}

C16_AllOrNothing ==
  /\ \A m \in Mailboxes : Len(queue[m]) <= MaxSends
  /\ \A k \in SendIds :
       /\ Cardinality(Places(k)) <= 1
       /\ sends[k].state \in {"New", "Waiting", "Done", "Dropped"}
            => Places(k) = {}
       /\ sends[k].state = "Enqueued"
            => \E p \in Places(k) : p[1] = sends[k].message.actor
  /\ (last.op = "poll" /\ last.res = "Disconnected") =>
       /\ ~last.conn
       /\ Places(last.dst) = {}
       /\ Len(queue[last.mb]) = last.len
  /\ (last.op = "poll" /\ last.res = "Enqueued") =>
       /\ last.val.state \in {"New", "Waiting"}
       /\ Len(queue[last.mb]) = last.len + 1
       /\ queue[last.mb][Len(queue[last.mb])] = last.dst
  /\ last.op = "handle" =>
       /\ Places(last.dst) = {}
       /\ Len(queue[last.mb]) = last.len - 1

C16_Witness ==
  /\ last.op = "poll"
  /\ last.res = "Disconnected"
  /\ last.val.state = "Waiting"
  /\ Len(queue[last.mb]) = 1
  /\ \E k \in SendIds : sends[k].state = "Enqueued" /\ sends[k].mb = last.mb

\* C17: the messages a single caller sends through one channel, awaiting
\* each send before the next, enter the queue in call order, also when sends
\* were suspended on a full mailbox and while other handles send: each call
\* that is answered had its message enqueued, after those of all earlier
\* calls and before the next call was issued.
CallerMessages ==
  {k \in SendIds : sends[k].state # "none" /\ sends[k].message.chan = 1}

C17_CallOrder ==
  /\ \A a, b \in 1..Len(caller.log) : a < b => caller.log[a] < caller.log[b]
  /\ \A n \in caller.ok : \E a \in 1..Len(caller.log) : caller.log[a] = n
  /\ \A a \in 1..Len(caller.log) : caller.log[a] <= caller.next
  /\ CallerMessages = IF caller.cur = 0 THEN {} ELSE {caller.cur}
  /\ \A m \in Mailboxes :
       Cardinality({n \in 1..Len(queue[m]) :
                      queue[m][n] \in CallerMessages}) <= 1
  /\ (caller.cur # 0 /\ sends[caller.cur].state \in {"Enqueued", "Done", "Dropped"})
       => /\ caller.log # <<>>
          /\ caller.log[Len(caller.log)] = caller.next
  /\ (caller.cur # 0 /\ sends[caller.cur].state \in {"New", "Waiting"})
       => \A a \in 1..Len(caller.log) : caller.log[a] < caller.next

C17_Witness ==
  /\ caller.log = <<1, 2>>
  /\ last.op = "await"
  /\ last.val.state = "Waiting"
  /\ last.res = "Pending"
  /\ Len(queue[last.mb]) = 1
  /\ 1 \in caller.ok

\* C18: a bounded mailbox never holds more messages than its capacity:
\* len() <= n on every channel whose capacity() is Some(n); a send polled
\* while the mailbox is full is suspended and its message is not enqueued
\* before there is room; capacity() answers the bound the mailbox was built
\* with in every state.
C18_BoundedMailbox ==
  /\ \A i \in Live :
       LET c == channels[i] IN
         /\ capacity(c) = IF c.mb = "Alice" THEN Some(MaxCap) ELSE <<>>
         /\ capacity(c) # <<>> => len(c) <= capacity(c)[1]
  /\ \A m \in Mailboxes :
       Address_capacity([mb |-> m]) # <<>>
         => Len(queue[m]) <= Address_capacity([mb |-> m])[1]
  /\ \A k \in SendIds : sends[k].state = "Waiting" => Places(k) = {}
  /\ (last.op = "poll" /\ last.val.state \in {"New", "Waiting"} /\ last.conn
        /\ Address_capacity(last) # <<>>) =>
       IF last.len >= Address_capacity(last)[1]
       THEN /\ last.res = "Pending"
            /\ sends[last.dst].state = "Waiting"
            /\ Len(queue[last.mb]) = last.len
       ELSE last.res = "Enqueued"

C18_Witness ==
  /\ last.op = "poll"
  /\ last.res = "Pending"
  /\ last.len = MaxCap
  /\ \E i \in Live :
       /\ channels[i].mb = last.mb
       /\ capacity(channels[i]) = Some(len(channels[i]))

\* C19: a send works on its own clone of the handle and leaves nothing
\* behind: issuing it counts one strong reference exactly when the channel
\* is strong, dropping or resolving it gives that reference back, so that
\* the strong count is again what the remaining handles account for; the
\* channel and the receiver count are untouched by send, poll and drop of
\* the future; a message enters a queue only by a poll of its own pending
\* future, so a dropped send's message is never enqueued later.
Held(f) == IF f.strong THEN 1 ELSE 0

C19_CountsRestored ==
  /\ \A m \in Mailboxes : sender_count[m] = StrongRefs(m)
  /\ last.op = "send" =>
       /\ sender_count[last.mb] = last.pre[last.mb] + Held(last.val)
       /\ sends[last.dst].strong = last.val.strong
       /\ channels[last.src] = last.val
  /\ last.op \in {"cancel", "poll"} =>
       /\ sender_count[last.mb]
            = last.pre[last.mb] - (Held(last.val) - Held(sends[last.dst]))
       /\ last.op = "cancel" => sends[last.dst] = NoSend
       /\ (last.op = "cancel" /\ last.val.state \in {"New", "Waiting"})
            => Places(last.dst) = {}
  /\ last.op \in {"send", "cancel", "poll"} =>
       \A m \in Mailboxes \ {last.mb} : sender_count[m] = last.pre[m]

C19_FutureStep ==
  /\ last'.op \in {"send", "cancel", "poll"} =>
       /\ channels' = channels
       /\ address' = address
       /\ receiver_count' = receiver_count
  /\ \A k \in SendIds :
       (Places(k) = {} /\ Places(k)' # {}) =>
         /\ sends[k].state \in {"New", "Waiting"}
         /\ last'.op = "poll" /\ last'.dst = k

C19_DroppedSendLeavesNoResidue ==
  []C19_CountsRestored /\ [][C19_FutureStep]_vars

C19_Witness ==
  /\ last.op = "cancel"
  /\ last.val.state = "Waiting"
  /\ last.val.strong
  /\ sender_count[last.mb] = last.pre[last.mb] - 1
  /\ last.src \in Live
  /\ Places(last.dst) = {}
  /\ queue[last.mb] # <<>>

\* C20: disconnection is permanent: a mailbox that is disconnected stays
\* disconnected in every later state and on every channel, whatever is built
\* from the handles that exist; clone, downgrade and as_either of a
\* Weak-class channel never give a strong-class channel and count nothing.
C20_WeakStaysWeak ==
  /\ (last.op \in {"clone", "downgrade", "as_either"} /\ ~last.val.strong) =>
       /\ ~is_strong(inner(Dst))
       /\ sender_count = last.pre
  /\ (last.op \in {"clone", "downgrade", "as_either", "new", "new_clone",
                   "new_weak"} /\ ~last.conn) => ~is_connected(Dst)

C20_NoReconnect ==
  /\ \A m \in Mailboxes :
       ~Address_is_connected([mb |-> m]) => ~Address_is_connected([mb |-> m])'
  /\ \A i \in Slots :
       (channels[i].kind = "channel" /\ channels'[i].kind = "channel"
          /\ ~is_connected(channels[i])) => ~(is_connected(channels[i]))'
  /\ \A i \in Slots :
       (channels[i].kind = "none" /\ channels'[i].kind = "channel"
          /\ ~Address_is_connected(channels'[i])) => ~(is_connected(channels[i]))'

====
